---- MODULE Spec2Model ----
\* Model of BestEmployerStockAnalysis.py: the name normalisers, the ticker
\* resolver (get_ticker), the metrics fetcher (get_stock_info), the strategy
\* filter (filter_by_strategy) and the main enrichment / projection block.
EXTENDS Integers, Sequences, FiniteSets, TLC

VARIABLES
    pc,                \* position of the program / of the call under study
    \* ---- get_stock_info (lines 183-253)
    ticker, retries, min_delay, max_delay,   \* arguments of the call
    attempt,           \* loop variable of "for attempt in range(retries)"
    info_to_return,    \* the dictionary built at lines 203-212
    trace,             \* history of the call: <<"query", n, outcome>>, <<"sleep", d>>
    fetch_result,      \* what the call handed back: NoValue, or <<"return", dict>>
    \* ---- get_ticker (lines 165-181)
    company_name,      \* argument of get_ticker / loop variable of line 332
    lookup_queries,    \* history: number of lookup queries of the current call
    lookup_response,   \* history: what the lookup query of the current call met
    ticker_result,     \* NoValue, <<"return", v>> or <<"raise", exception>>
    \* ---- scraping (lines 19-163) and set building (lines 317-322)
    raw_forbes, raw_gptw,
    forbes_companies_list, greatplaces_companies_list,
    common_companies, all_unique_companies,
    \* ---- main enrichment loop and sheets (lines 328-395)
    todo,              \* the part of list(all_unique_companies) not yet visited
    all_stock_data,    \* list of info dictionaries (lines 328, 341)
    fetch_calls,       \* history: <<company, ticker>> of each get_stock_info call
    lookups,           \* history: <<company, result>> of each get_ticker call
    forbes_final_df, greatplaces_final_df, common_final_df,
    \* ---- filter_by_strategy (lines 256-302)
    df, strategy_type, filtered_df, warned

fetchVars  == <<ticker, retries, min_delay, max_delay, attempt, info_to_return,
                trace, fetch_result>>
tickerVars == <<company_name, lookup_queries, lookup_response, ticker_result>>
normVars   == <<raw_forbes, raw_gptw, forbes_companies_list,
                greatplaces_companies_list, common_companies, all_unique_companies>>
mainVars   == <<todo, all_stock_data, fetch_calls, lookups, forbes_final_df,
                greatplaces_final_df, common_final_df>>
filterVars == <<df, strategy_type, filtered_df, warned>>
vars == <<pc, fetchVars, tickerVars, normVars, mainVars, filterVars>>

----------------------------------------------------------------------------
\* Python values.  An optional value is a sequence: <<>> is None, <<v>> is v.

None == <<>>

Some(v) == <<v>>

\* bool(x) for the optional strings the program tests (Name, ticker, Error):
\* None and the empty string are falsy.
Truthy(x) == x # None /\ x[1] # ""

NoValue == <<"none">>

----------------------------------------------------------------------------
\* Bounds of the model.

MaxRetries == 3

MaxDelay == 2

\* Longest raw name sequence scraped from the Forbes page / the GPTW page.
MaxRawForbes == 4

MaxRawGptw == 2

\* Longest candidate list of a lookup response: for a call of get_ticker on its
\* own, and inside the enrichment loop.
MaxQuotes == 2

MaxQuotesInLoop == 1

\* Longest name list on a page when the whole enrichment run is explored.
MaxPage == 2

\* Most rows of a table handed to filter_by_strategy.
MaxRows == 3

\* What random.uniform(a, b) can return, sampled at the two ends of the
\* interval (line 241).
Uniform(a, b) == {a, b}

----------------------------------------------------------------------------
\* The metrics query service (yf.Ticker(ticker).info, lines 216-217): an
\* attempt either raises or yields an info dictionary; info.get(k) of a key
\* that is missing is None.

Tickers == {"ACME", "MCD"}

FullInfo ==
    [shortName |-> Some("Acme Corp"), sector |-> Some("Technology"),
     industry |-> Some("Software"), currentPrice |-> Some(100),
     marketCap |-> Some(5000), trailingPE |-> Some(30)]

PartialInfo ==
    [shortName |-> Some("Acme Corp"), sector |-> Some("Healthcare"),
     industry |-> None, currentPrice |-> None, marketCap |-> None,
     trailingPE |-> None]

NamelessInfo ==
    [shortName |-> None, sector |-> Some("Utilities"), industry |-> None,
     currentPrice |-> Some(50), marketCap |-> None, trailingPE |-> Some(15)]

BlankNameInfo ==
    [shortName |-> Some(""), sector |-> None, industry |-> None,
     currentPrice |-> None, marketCap |-> None, trailingPE |-> None]

\* The dictionary with no key at all; also stands for "no dictionary" in an
\* outcome that raises.
EmptyInfo ==
    [shortName |-> None, sector |-> None, industry |-> None,
     currentPrice |-> None, marketCap |-> None, trailingPE |-> None]

Infos == {FullInfo, PartialInfo, NamelessInfo, BlankNameInfo}

\* Exceptions are records of their class and of str(e).
TransportError == [cls |-> "ConnectionError", msg |-> "connection refused"]

ParseError == [cls |-> "JSONDecodeError", msg |-> "Expecting value"]

MetricsOutcomes ==
    {[kind |-> "raise", exc |-> e, info |-> EmptyInfo] : e \in {TransportError, ParseError}}
    \cup {[kind |-> "info", exc |-> TransportError, info |-> i] : i \in Infos}

----------------------------------------------------------------------------
\* get_stock_info

\* lines 203-212
InitialInfo(t) ==
    [Ticker |-> t, Name |-> None, Sector |-> None, Industry |-> None,
     Price |-> None, MarketCap |-> None, PERatio |-> None, Error |-> None]

\* lines 220-225
Populate(i, rsp) ==
    [i EXCEPT !.Name = rsp.shortName, !.Sector = rsp.sector,
              !.Industry = rsp.industry, !.Price = rsp.currentPrice,
              !.MarketCap = rsp.marketCap, !.PERatio = rsp.trailingPE]

\* line 235
NameMissing(t) ==
    [cls |-> "ValueError", msg |-> "Minimal info (Name) not received for " \o t]

ExceptOnlyTransport(e) == e.cls = "ConnectionError"

\* line 237: "except Exception" catches every exception class an attempt raises.
ExceptException(e) == e.cls \in {"ConnectionError", "JSONDecodeError", "ValueError"}

RetryLeftOffByOne(a, r) == a < r

\* line 240: after a failed attempt, is another one left?
RetryLeft(a, r) == a < r - 1

\* The dictionary as the try body leaves it (lines 216-225): stock.info raises
\* before any field is written, or every field is overwritten from the response.
AfterTry(i, o) == IF o.kind = "info" THEN Populate(i, o.info) ELSE i

\* line 229
AttemptSucceeded(i, o) == o.kind = "info" /\ Truthy(AfterTry(i, o).Name)

\* The exception a failed attempt ends with (line 217 or line 235).
Raised(t, o) == IF o.kind = "raise" THEN o.exc ELSE NameMissing(t)

\* The call of get_stock_info (its arguments bound, lines 203-212 executed).
CallGetStockInfo(t, r, lo, hi) ==
    /\ ticker' = t
    /\ retries' = r
    /\ min_delay' = lo
    /\ max_delay' = hi
    /\ attempt' = 0
    /\ info_to_return' = InitialInfo(t)
    /\ trace' = <<>>
    /\ fetch_result' = NoValue

ReturnInfo(i) ==
    /\ fetch_result' = <<"return", i>>
    /\ info_to_return' = i
    /\ pc' = "fetch_done"
    /\ UNCHANGED attempt

\* One iteration of the loop of line 214: lines 215-248.
Attempt ==
    /\ pc = "fetch"
    /\ attempt < retries
    /\ \E o \in MetricsOutcomes :
         LET queried == Append(trace, <<"query", attempt + 1, o>>)
             i == AfterTry(info_to_return, o)
             e == Raised(ticker, o)
             failed == [i EXCEPT !.Error = Some(e.msg)]
         IN  IF AttemptSucceeded(info_to_return, o)
             THEN /\ trace' = queried
                  /\ ReturnInfo([i EXCEPT !.Error = None])
             ELSE IF ~ExceptException(e)
             THEN /\ trace' = queried
                  /\ fetch_result' = <<"raise", e>>
                  /\ info_to_return' = i
                  /\ pc' = "fetch_done"
                  /\ UNCHANGED attempt
             ELSE IF RetryLeft(attempt, retries)
             THEN \E d \in Uniform(min_delay, max_delay) :
                  /\ trace' = Append(queried, <<"sleep", d>>)
                  /\ info_to_return' = failed
                  /\ attempt' = attempt + 1
                  /\ UNCHANGED <<pc, fetch_result>>
             ELSE /\ trace' = queried
                  /\ ReturnInfo(failed)
    /\ UNCHANGED <<ticker, retries, min_delay, max_delay>>
    /\ UNCHANGED <<tickerVars, normVars, mainVars, filterVars>>

\* lines 250-253: the loop ended without a return (range(retries) was empty).
\* info_to_return.get("Error", default) is the stored value: the key exists.
LoopExhausted ==
    /\ pc = "fetch"
    /\ attempt >= retries
    /\ ReturnInfo([info_to_return EXCEPT !.Error = info_to_return.Error])
    /\ UNCHANGED <<ticker, retries, min_delay, max_delay, trace>>
    /\ UNCHANGED <<tickerVars, normVars, mainVars, filterVars>>

----------------------------------------------------------------------------
\* The variables of the parts that are not running.

IdleFetch ==
    /\ ticker = "" /\ retries = 0 /\ min_delay = 0 /\ max_delay = 0
    /\ attempt = 0 /\ info_to_return = InitialInfo("")
    /\ trace = <<>> /\ fetch_result = NoValue

IdleTicker ==
    /\ company_name = "" /\ lookup_queries = 0
    /\ lookup_response = NoValue /\ ticker_result = NoValue

IdleNorm ==
    /\ raw_forbes = <<>> /\ raw_gptw = <<>>
    /\ forbes_companies_list = <<>> /\ greatplaces_companies_list = <<>>
    /\ common_companies = {} /\ all_unique_companies = {}

IdleMain ==
    /\ todo = <<>> /\ all_stock_data = <<>> /\ fetch_calls = <<>>
    /\ lookups = <<>>
    /\ forbes_final_df = <<>> /\ greatplaces_final_df = <<>>
    /\ common_final_df = <<>>

IdleFilter ==
    /\ df = <<>> /\ strategy_type = "" /\ filtered_df = <<>> /\ warned = FALSE

----------------------------------------------------------------------------
\* One call of get_stock_info, for every ticker, retry count and delay bounds.

InitFetch ==
    /\ pc = "fetch"
    /\ ticker \in Tickers
    /\ retries \in 0..MaxRetries
    /\ min_delay \in 0..MaxDelay
    /\ max_delay \in min_delay..MaxDelay
    /\ attempt = 0
    /\ info_to_return = InitialInfo(ticker)
    /\ trace = <<>>
    /\ fetch_result = NoValue
    /\ IdleTicker /\ IdleNorm /\ IdleMain /\ IdleFilter

NextFetch == Attempt \/ LoopExhausted

SpecFetch == InitFetch /\ [][NextFetch]_vars

\* The interpreter runs the call to its end: a loop iteration that can be taken
\* is taken.
SpecFetchFair == SpecFetch /\ WF_vars(NextFetch)

\* Readings of the history.
Queries == SelectSeq(trace, LAMBDA ev : ev[1] = "query")

Sleeps == SelectSeq(trace, LAMBDA ev : ev[1] = "sleep")

FetchDone == pc = "fetch_done"

Returned == FetchDone /\ fetch_result[1] = "return"

SucceededAt(k) == AttemptSucceeded(InitialInfo(ticker), trace[k][3])

DataFields(i) == <<i.Name, i.Sector, i.Industry, i.Price, i.MarketCap, i.PERatio>>

AllFailed ==
    /\ FetchDone
    /\ \A k \in 1..Len(trace) : trace[k][1] = "query" => ~SucceededAt(k)

\* C1: every call of get_stock_info ends, returning a record whose Ticker is
\* the ticker asked for, after at most `retries` metrics queries, and no
\* failure of an attempt leaves the call as an exception.
C1_FetchAlwaysReturns ==
    /\ [](Len(Queries) <= retries)
    /\ [](FetchDone => /\ fetch_result[1] = "return"
                       /\ fetch_result[2].Ticker = ticker)
    /\ <>FetchDone

\* C1 witness: a call whose three attempts failed in three ways has returned.
C1_Witness ==
    /\ Returned /\ retries = 3 /\ Len(Queries) = 3
    /\ Queries[1][3].kind = "raise" /\ Queries[1][3].exc = TransportError
    /\ Queries[2][3].kind = "raise" /\ Queries[2][3].exc = ParseError
    /\ Queries[3][3].kind = "info"
    /\ fetch_result[2].Ticker = ticker

\* The attempts of the history that succeeded, by attempt number.
SuccessfulAttempts == {k \in 1..Len(Queries) : AttemptSucceeded(InitialInfo(ticker), Queries[k][3])}

Smallest(S) == CHOOSE x \in S : \A y \in S : x <= y

ExpectedQueries ==
    IF SuccessfulAttempts = {} THEN retries
    ELSE IF Smallest(SuccessfulAttempts) < retries THEN Smallest(SuccessfulAttempts)
    ELSE retries

\* Attempts run in order, each failed one but the last followed by one sleep
\* within the delay bounds, and the call ends at the first success or at the
\* failure of attempt number `retries`.
OrderedAttempts ==
    \A k \in 1..Len(trace) :
        /\ k % 2 = 1 => trace[k][1] = "query" /\ trace[k][2] = (k + 1) \div 2
        /\ k % 2 = 0 => /\ trace[k][1] = "sleep"
                        /\ min_delay <= trace[k][2] /\ trace[k][2] <= max_delay
        /\ (trace[k][1] = "query" /\ SucceededAt(k)) => k = Len(trace) /\ FetchDone
        /\ (trace[k][1] = "query" /\ ~SucceededAt(k) /\ trace[k][2] < retries)
              => k < Len(trace) /\ trace[k + 1][1] = "sleep"
        /\ (trace[k][1] = "query" /\ ~SucceededAt(k) /\ trace[k][2] >= retries)
              => k = Len(trace) /\ FetchDone /\ trace[k][2] = retries
        /\ (trace[k][1] = "sleep" /\ k = Len(trace)) => pc = "fetch" /\ attempt < retries

\* C2 as stated: attempts are ordered as above, and a finished call has issued
\* min(first successful attempt, retries) queries and one sleep fewer.
C2_Original ==
    /\ OrderedAttempts
    /\ FetchDone => /\ Len(Queries) = ExpectedQueries
                    /\ Len(Sleeps) = Len(Queries) - 1

\* C2 (amended): attempts are ordered as above, and a finished call has issued
\* min(first successful attempt, retries) queries and one sleep fewer than
\* queries, except that a call with retries = 0 issues no query and no sleep.
C2_AttemptOrder ==
    /\ OrderedAttempts
    /\ FetchDone => /\ Len(Queries) = ExpectedQueries
                    /\ Len(Sleeps) = IF Len(Queries) = 0 THEN 0 ELSE Len(Queries) - 1

\* C2 witness: the second of three attempts succeeded: two queries, one sleep.
C2_Witness ==
    /\ Returned /\ retries = 3 /\ SuccessfulAttempts = {2}
    /\ Len(Queries) = 2 /\ Len(Sleeps) = 1 /\ Len(trace) = 3

\* C3 as stated: when every attempt failed, the returned record has its Ticker,
\* the error text of the last attempt as Error, and no data field: a failed
\* attempt, a response without Name included, leaves no field value behind.
C3_ExhaustedRecord ==
    (AllFailed /\ retries >= 1) =>
        /\ fetch_result[1] = "return"
        /\ fetch_result[2].Ticker = ticker
        /\ fetch_result[2].Error = Some(Raised(ticker, Queries[retries][3]).msg)
        /\ \A f \in 1..6 : DataFields(fetch_result[2])[f] = None

\* C11 as stated: every returned record has a non-empty Name exactly when its
\* Error is absent: it is a success, or it carries the text of an error.
C11_NameIffNoError ==
    Returned => (Truthy(fetch_result[2].Name) <=> fetch_result[2].Error = None)

----------------------------------------------------------------------------
\* Scraping: get_forbes_employers and get_greatplacetowork_employers.

\* Texts of the tags a page can hold.
ForbesTexts == {"McDonald", "McDonald's", "Wendy", "'s", "S", "2025"}

GptwTexts == {"McDonald's", "Acme", ""}

\* str.lower() on the texts above, on the names merged from them and on the
\* strategy names; the strings not listed have no upper-case letter.
Lower(name) ==
    CASE name = "S" -> "s"
      [] name = "McDonald" -> "mcdonald"
      [] name = "McDonald's" -> "mcdonald's"
      [] name = "Wendy" -> "wendy"
      [] name = "Acme" -> "acme"
      [] name = "Unlisted Co" -> "unlisted co"
      [] name = "Defensive" -> "defensive"
      [] name = "Cyclical" -> "cyclical"
      [] name = "GROWTH" -> "growth"
      [] OTHER -> name

\* lines 43-45, 56: does the lowered text contain an exclude keyword?
HasExcludeKeyword(name) == Lower(name) \in {"2025"}

\* line 58: name.replace('.', '', 1).isdigit()
IsNumeric(name) == name \in {"2025"}

\* line 60
StartsWithBy(name) == FALSE

ForbesMaxLen == 60

GptwMaxLen == 100

TopN == 100

\* lines 50-61: the texts that are kept have no exclusion reason.
ForbesKeeps(name) ==
    /\ name # ""
    /\ ~(Len(name) >= ForbesMaxLen)
    /\ ~HasExcludeKeyword(name)
    /\ ~IsNumeric(name)
    /\ ~StartsWithBy(name)

\* lines 48-66
ForbesFilter(raw) == SelectSeq(raw, ForbesKeeps)

Range(seq) == {seq[k] : k \in 1..Len(seq)}

RECURSIVE DedupeFrom(_, _, _)
DedupeFrom(seq, k, seen) ==
    IF k > Len(seq) THEN <<>>
    ELSE IF seq[k] \in seen THEN DedupeFrom(seq, k + 1, seen)
    ELSE <<seq[k]>> \o DedupeFrom(seq, k + 1, seen \cup {seq[k]})

\* line 69: list(dict.fromkeys(companies))
Dedupe(seq) == DedupeFrom(seq, 1, {})

\* line 84; "^s" stands for the suffix written with the typographic
\* apostrophe U+2019, which cannot be written in a string here.
ApostropheSuffixes == {"s", "'s", "^s"}

IsFragment(name) == Lower(name) \in ApostropheSuffixes

RECURSIVE FixFrom(_, _)
FixFrom(u, k) ==
    IF k > Len(u) THEN <<>>
    ELSE IF k + 1 <= Len(u) /\ IsFragment(u[k + 1])
         THEN <<u[k] \o "'s">> \o FixFrom(u, k + 2)
         ELSE <<u[k]>> \o FixFrom(u, k + 1)

\* lines 73-91: the loop with skip_next
FixApostrophes(u) == FixFrom(u, 1)

Take(seq, n) == SubSeq(seq, 1, IF Len(seq) < n THEN Len(seq) ELSE n)

\* lines 48-109: the Company column get_forbes_employers returns for a page.
ForbesCompanies(raw) == Take(FixApostrophes(Dedupe(ForbesFilter(raw))), TopN)

GptwKeeps(name) == name # "" /\ Len(name) < GptwMaxLen

\* lines 141-153: the Company column get_greatplacetowork_employers returns.
GptwCompanies(raw) == SelectSeq(raw, GptwKeeps)

SeqsUpTo(S, n) == UNION {[1..k -> S] : k \in 0..n}

\* lines 306-309: the Forbes page is fetched and parsed; a request that fails
\* gives the empty frame (lines 117-119).
GetForbesEmployers ==
    /\ pc = "start"
    /\ \/ \E raw \in SeqsUpTo(ForbesTexts, MaxRawForbes) :
            /\ raw_forbes' = raw
            /\ forbes_companies_list' = ForbesCompanies(raw)
       \/ /\ raw_forbes' = <<>>
          /\ forbes_companies_list' = <<>>
    /\ pc' = "forbes_done"
    /\ UNCHANGED <<raw_gptw, greatplaces_companies_list, common_companies,
                   all_unique_companies>>
    /\ UNCHANGED <<fetchVars, tickerVars, mainVars, filterVars>>

\* lines 311-314, with the failing request of lines 161-163.
GetGreatPlaceToWorkEmployers ==
    /\ pc = "forbes_done"
    /\ \/ \E raw \in SeqsUpTo(GptwTexts, MaxRawGptw) :
            /\ raw_gptw' = raw
            /\ greatplaces_companies_list' = GptwCompanies(raw)
       \/ /\ raw_gptw' = <<>>
          /\ greatplaces_companies_list' = <<>>
    /\ pc' = "gptw_done"
    /\ UNCHANGED <<raw_forbes, forbes_companies_list, common_companies,
                   all_unique_companies>>
    /\ UNCHANGED <<fetchVars, tickerVars, mainVars, filterVars>>

Orderings(S) ==
    {p \in [1..Cardinality(S) -> S] : \A a, b \in 1..Cardinality(S) : a # b => p[a] # p[b]}

CompanyOrdersOfLists(forbes, gptw) == {forbes \o gptw}

\* line 332: list(all_unique_companies) hands out the members of the set of
\* line 322 in the set's own order, which is any order.
CompanyOrders(forbes, gptw) == Orderings(Range(forbes) \cup Range(gptw))

\* lines 321-322 and 328-332: the two sets, the empty table, and the order in
\* which the loop visits the companies.
BuildSets ==
    /\ pc = "gptw_done"
    /\ common_companies' = Range(forbes_companies_list) \cap Range(greatplaces_companies_list)
    /\ all_unique_companies' = Range(forbes_companies_list) \cup Range(greatplaces_companies_list)
    /\ todo' \in CompanyOrders(forbes_companies_list, greatplaces_companies_list)
    /\ all_stock_data' = <<>>
    /\ pc' = "loop"
    /\ UNCHANGED <<raw_forbes, raw_gptw, forbes_companies_list, greatplaces_companies_list>>
    /\ UNCHANGED <<fetch_calls, lookups, forbes_final_df, greatplaces_final_df,
                   common_final_df>>
    /\ UNCHANGED <<fetchVars, tickerVars, filterVars>>

InitNorm ==
    /\ pc = "start"
    /\ IdleFetch /\ IdleTicker /\ IdleNorm /\ IdleMain /\ IdleFilter

NextNorm == GetForbesEmployers \/ GetGreatPlaceToWorkEmployers \/ BuildSets

SpecNorm == InitNorm /\ [][NextNorm]_vars

\* A name of a company, as opposed to noise or to an apostrophe fragment.
IsCompanyName(name) == ForbesKeeps(name) /\ ~IsFragment(name)

NoDuplicates(seq) == \A a, b \in 1..Len(seq) : a # b => seq[a] # seq[b]

\* C5 as stated: every name that a fragment follows in the raw Forbes sequence
\* comes out with "'s" appended, and that fragment is no entry of the result.
C5_ApostropheRepair ==
    pc # "start" =>
        \A k \in 1..(Len(raw_forbes) - 1) :
            (IsCompanyName(raw_forbes[k]) /\ IsFragment(raw_forbes[k + 1])) =>
                /\ (raw_forbes[k] \o "'s") \in Range(forbes_companies_list)
                /\ raw_forbes[k + 1] \notin Range(forbes_companies_list)

\* C6 as stated: no name occurs twice in a source's normalised list nor in the
\* working sequence handed to the resolver, and the working sequence keeps the
\* first-seen order of the names.
C6_DedupedInOrder ==
    pc = "loop" =>
        /\ NoDuplicates(forbes_companies_list)
        /\ NoDuplicates(greatplaces_companies_list)
        /\ NoDuplicates(todo)
        /\ todo = Dedupe(forbes_companies_list \o greatplaces_companies_list)

----------------------------------------------------------------------------
\* get_ticker (lines 165-181) and the lookup query service.

CompanyNames == {"Acme", "Unlisted Co", "McDonald's"}

Candidates == [quoteType : {"EQUITY", "ETF"}, symbol : {Some("ACME"), Some("MCD"), None}]

\* What the one query of line 173 can meet: requests.get raises (a
\* RequestException); the body is not JSON, so .json() raises
\* requests.exceptions.JSONDecodeError (a RequestException); the body is JSON
\* but no object (an array), so res.get raises AttributeError; or the body is an
\* object whose "quotes" is a list of candidates (a missing key reads as []).
LookupOutcomes(n) ==
    {[kind |-> k, quotes |-> <<>>] : k \in {"transport", "invalid_json", "not_object"}}
    \cup {[kind |-> "quotes", quotes |-> q] : q \in SeqsUpTo(Candidates, n)}

\* lines 175-177: the symbol of the first candidate whose quoteType is EQUITY;
\* line 181 when the loop finds none.
RECURSIVE ScanFrom(_, _)
ScanFrom(quotes, k) ==
    IF k > Len(quotes) THEN None
    ELSE IF quotes[k].quoteType = "EQUITY" THEN quotes[k].symbol
    ELSE ScanFrom(quotes, k + 1)

\* lines 173-177: the try body returns a value or raises.
TryLookup(o) ==
    CASE o.kind = "transport" -> <<"raise", [cls |-> "ConnectionError", msg |-> "connection refused"]>>
      [] o.kind = "invalid_json" -> <<"raise", [cls |-> "JSONDecodeError", msg |-> "Expecting value"]>>
      [] o.kind = "not_object" -> <<"raise", [cls |-> "AttributeError", msg |-> "'list' object has no attribute 'get'"]>>
      [] OTHER -> <<"return", ScanFrom(o.quotes, 1)>>

\* line 178: "except requests.exceptions.RequestException"
ExceptRequestException(e) == e.cls \in {"ConnectionError", "JSONDecodeError"}

\* lines 172-181: the value get_ticker returns, or the exception that leaves it.
GetTicker(o) ==
    LET r == TryLookup(o)
    IN  IF r[1] = "raise" /\ ExceptRequestException(r[2]) THEN <<"return", None>> ELSE r

\* One call of get_ticker.
GetTickerCall ==
    /\ pc = "lookup"
    /\ \E o \in LookupOutcomes(MaxQuotes) :
         /\ lookup_queries' = lookup_queries + 1
         /\ lookup_response' = o
         /\ ticker_result' = GetTicker(o)
    /\ pc' = "lookup_done"
    /\ UNCHANGED company_name
    /\ UNCHANGED <<fetchVars, normVars, mainVars, filterVars>>

InitTicker ==
    /\ pc = "lookup"
    /\ company_name \in CompanyNames
    /\ lookup_queries = 0 /\ lookup_response = NoValue /\ ticker_result = NoValue
    /\ IdleFetch /\ IdleNorm /\ IdleMain /\ IdleFilter

NextTicker == GetTickerCall

SpecTicker == InitTicker /\ [][NextTicker]_vars

LookupDone == pc = "lookup_done"

\* C7 as stated: a call issues exactly one lookup query; a candidate list gives
\* the symbol of its first equity candidate, or NotFound when it has none; a
\* transport failure or a failure to parse the response gives NotFound as the
\* returned value and does not leave the call as an exception.
C7_ResolverNeverRaises ==
    LookupDone =>
        /\ lookup_queries = 1
        /\ lookup_response.kind = "quotes" =>
              ticker_result = <<"return", ScanFrom(lookup_response.quotes, 1)>>
        /\ lookup_response.kind \in {"transport", "invalid_json", "not_object"} =>
              ticker_result = <<"return", None>>

----------------------------------------------------------------------------
\* The enrichment loop (lines 332-353) and the sheets (lines 357-395).

MainRetries == 3

MainMinDelay == 3

MainMaxDelay == 8

\* line 335: "if ticker:"
Proceed(t) == Truthy(t)

\* lines 332-337 and 351-353: the next company is looked up; with a ticker,
\* get_stock_info is called; without one the company is skipped.  An exception
\* that leaves get_ticker ends the run.
ProcessCompany ==
    /\ pc = "loop"
    /\ todo # <<>>
    /\ company_name' = Head(todo)
    /\ todo' = Tail(todo)
    /\ \E o \in LookupOutcomes(MaxQuotesInLoop) :
         LET r == GetTicker(o)
         IN  /\ ticker_result' = r
             /\ lookups' = Append(lookups, <<Head(todo), r>>)
             /\ IF r[1] = "raise"
                THEN /\ pc' = "crashed"
                     /\ UNCHANGED <<fetchVars, fetch_calls>>
                ELSE IF Proceed(r[2])
                THEN /\ CallGetStockInfo(r[2][1], MainRetries, MainMinDelay, MainMaxDelay)
                     /\ fetch_calls' = Append(fetch_calls, <<Head(todo), r[2][1]>>)
                     /\ pc' = "fetch"
                ELSE /\ pc' = "loop"
                     /\ UNCHANGED <<fetchVars, fetch_calls>>
    /\ UNCHANGED <<lookup_queries, lookup_response>>
    /\ UNCHANGED <<all_stock_data, forbes_final_df, greatplaces_final_df, common_final_df>>
    /\ UNCHANGED <<normVars, filterVars>>

\* lines 340-341, 351-353: the returned dictionary gets the company's name and
\* joins the table; the frame of the finished call is gone.
AppendInfo ==
    /\ pc = "fetch_done"
    /\ fetch_result[1] = "return"
    /\ all_stock_data' =
          Append(all_stock_data, [OriginalCompanyName |-> company_name] @@ fetch_result[2])
    /\ pc' = "loop"
    /\ ticker' = "" /\ retries' = 0 /\ min_delay' = 0 /\ max_delay' = 0
    /\ attempt' = 0 /\ info_to_return' = InitialInfo("")
    /\ trace' = <<>> /\ fetch_result' = NoValue
    /\ UNCHANGED <<todo, fetch_calls, lookups, forbes_final_df, greatplaces_final_df,
                   common_final_df>>
    /\ UNCHANGED <<tickerVars, normVars, filterVars>>

\* line 377: a sheet row keeps the frame's index label and the output columns.
SheetRow(k, row) ==
    [index |-> k, Name |-> row.Name, Ticker |-> row.Ticker, PERatio |-> row.PERatio,
     Price |-> row.Price, Sector |-> row.Sector]

RECURSIVE RowsFrom(_, _, _)
RowsFrom(table, members, k) ==
    IF k > Len(table) THEN <<>>
    ELSE IF table[k].OriginalCompanyName \in members
         THEN <<SheetRow(k, table[k])>> \o RowsFrom(table, members, k + 1)
         ELSE RowsFrom(table, members, k + 1)

\* lines 379-381, 386-388, 392-394: the rows whose 'Original Company Name'
\* isin(members), in table order, cut to the output columns.
Sheet(table, members) == RowsFrom(table, members, 1)

CommonSheetOfEither(table, forbes, gptw) == Sheet(table, Range(forbes) \cup Range(gptw))

\* lines 392-394: common_companies is the set of line 321.
CommonSheet(table, forbes, gptw) == Sheet(table, Range(forbes) \cap Range(gptw))

\* lines 355-395: the loop is over; the three sheets are cut from the table.
BuildSheets ==
    /\ pc = "loop"
    /\ todo = <<>>
    /\ forbes_final_df' = Sheet(all_stock_data, Range(forbes_companies_list))
    /\ greatplaces_final_df' = Sheet(all_stock_data, Range(greatplaces_companies_list))
    /\ common_final_df' = CommonSheet(all_stock_data, forbes_companies_list,
                                       greatplaces_companies_list)
    /\ pc' = "done"
    /\ UNCHANGED <<todo, all_stock_data, fetch_calls, lookups>>
    /\ UNCHANGED <<fetchVars, tickerVars, normVars, filterVars>>

PageTexts == {"Acme", "Unlisted Co"}

\* The run from line 316 on, for every pair of pages of up to MaxPage names.
InitMain ==
    /\ pc = "gptw_done"
    /\ raw_forbes = <<>> /\ raw_gptw = <<>>
    /\ forbes_companies_list \in {ForbesCompanies(raw) : raw \in SeqsUpTo(PageTexts, MaxPage)}
    /\ greatplaces_companies_list \in {GptwCompanies(raw) : raw \in SeqsUpTo(PageTexts, MaxPage)}
    /\ common_companies = {} /\ all_unique_companies = {}
    /\ IdleFetch /\ IdleTicker /\ IdleMain /\ IdleFilter

NextMain == BuildSets \/ ProcessCompany \/ Attempt \/ AppendInfo \/ BuildSheets

SpecMain == InitMain /\ [][NextMain]_vars

\* Readings of the finished run.
RunDone == pc = "done"

HasRecord(c) == \E k \in 1..Len(all_stock_data) : all_stock_data[k].OriginalCompanyName = c

FetcherRanFor(c) == \E k \in 1..Len(fetch_calls) : fetch_calls[k][1] = c

NotFound(c) == \E k \in 1..Len(lookups) : lookups[k] = <<c, <<"return", None>>>>

\* The company of a sheet row is the company of the table row it was cut from.
AppearsIn(sheet, c) ==
    \E k \in 1..Len(sheet) : all_stock_data[sheet[k].index].OriginalCompanyName = c

\* C4: a company is on a sheet exactly when it has a record in the table (the
\* fetcher ran for its resolved ticker) and is in that sheet's name set; a
\* company the resolver did not find has no record and is on no sheet.
C4_Projections ==
    RunDone =>
        \A c \in PageTexts :
            /\ HasRecord(c) <=> FetcherRanFor(c)
            /\ AppearsIn(forbes_final_df, c)
                  <=> (HasRecord(c) /\ c \in Range(forbes_companies_list))
            /\ AppearsIn(greatplaces_final_df, c)
                  <=> (HasRecord(c) /\ c \in Range(greatplaces_companies_list))
            /\ AppearsIn(common_final_df, c)
                  <=> (/\ HasRecord(c)
                       /\ c \in Range(forbes_companies_list)
                       /\ c \in Range(greatplaces_companies_list))
            /\ NotFound(c) =>
                  /\ ~HasRecord(c)
                  /\ ~AppearsIn(forbes_final_df, c)
                  /\ ~AppearsIn(greatplaces_final_df, c)
                  /\ ~AppearsIn(common_final_df, c)

\* C4 witness: of two companies on both lists one was not found and is on no
\* sheet, the other has a record and is on all three.
C4_Witness ==
    /\ RunDone
    /\ forbes_companies_list = <<"Acme", "Unlisted Co">>
    /\ greatplaces_companies_list = <<"Unlisted Co", "Acme">>
    /\ NotFound("Unlisted Co") /\ ~AppearsIn(common_final_df, "Unlisted Co")
    /\ HasRecord("Acme") /\ AppearsIn(common_final_df, "Acme")
    /\ AppearsIn(forbes_final_df, "Acme") /\ AppearsIn(greatplaces_final_df, "Acme")

\* C10 as stated: the fetcher runs at most once per ticker and no two records
\* of the table have the same Ticker.
C10_Original ==
    /\ \A a, b \in 1..Len(fetch_calls) : a # b => fetch_calls[a][2] # fetch_calls[b][2]
    /\ \A a, b \in 1..Len(all_stock_data) :
          a # b => all_stock_data[a].Ticker # all_stock_data[b].Ticker

\* C10 (amended): the fetcher runs at most once per company name and no two
\* records of the table have the same originating company name; each record
\* carries the ticker its company resolved to.
C10_OncePerCompany ==
    /\ \A a, b \in 1..Len(fetch_calls) : a # b => fetch_calls[a][1] # fetch_calls[b][1]
    /\ \A a, b \in 1..Len(all_stock_data) :
          a # b => all_stock_data[a].OriginalCompanyName # all_stock_data[b].OriginalCompanyName
    /\ Len(all_stock_data) <= Len(fetch_calls)
    /\ \A k \in 1..Len(all_stock_data) :
          fetch_calls[k] = <<all_stock_data[k].OriginalCompanyName, all_stock_data[k].Ticker>>

\* C10 witness: two company names resolved to one ticker; the table holds a
\* record for each.
C10_Witness ==
    /\ RunDone
    /\ Len(all_stock_data) = 2
    /\ all_stock_data[1].Ticker = all_stock_data[2].Ticker
    /\ all_stock_data[1].OriginalCompanyName # all_stock_data[2].OriginalCompanyName

----------------------------------------------------------------------------
\* filter_by_strategy (lines 256-302).  A frame is its columns and its rows.

\* line 361
FrameColumns ==
    <<"Name", "Ticker", "PE Ratio", "Price", "Sector", "Industry", "Market Cap",
      "Original Company Name">>

\* pd.DataFrame() (lines 268, 270)
NoColumnsFrame == [columns |-> <<>>, rows |-> <<>>]

Row(t, sector, pe, cap) == [Ticker |-> t, Sector |-> sector, PERatio |-> pe, MarketCap |-> cap]

TableRows ==
    {Row("A", Some("Healthcare"), Some(15), Some(5000)),
     Row("B", Some("Healthcare"), Some(30), None),
     Row("C", Some("Industrials"), None, Some(1000)),
     Row("D", Some("Industrials"), Some(30), Some(5000)),
     Row("E", Some("Utilities"), Some(20), Some(1000)),
     Row("F", Some("Technology"), Some(25), None),
     Row("G", None, Some(10), Some(1000)),
     Row("H", Some("Consumer Defensive"), Some(10), None),
     Row("I", Some("Communication Services"), Some(15), Some(5000)),
     Row("J", Some("Financial Services"), None, None)}

StrategyNames == {"defensive", "Defensive", "Cyclical", "growth", "GROWTH", "unknown", "value"}

\* lines 273, 275, 277
defensive_sectors == {"Healthcare", "Utilities", "Consumer Defensive", "Communication Services"}

cyclical_sectors ==
    {"Industrials", "Consumer Cyclical", "Financial Services", "Real Estate", "Basic Materials"}

growth_sectors == {"Technology", "Communication Services", "Healthcare", "Industrials"}

\* df.empty: an axis of length 0 (line 267)
IsEmptyFrame(f) == Len(f.rows) = 0 \/ Len(f.columns) = 0

\* Series.isin: a missing value is in no list.
IsIn(x, S) == x # None /\ x[1] \in S

\* Series.notna
NotNa(x) == x # None

AtMost(x, n) == x # None /\ x[1] <= n

\* Series < n: False for a missing value.
Below(x, n) == x # None /\ x[1] < n

\* Series > n: False for a missing value.
Above(x, n) == x # None /\ x[1] > n

\* lines 283-285, 289-290, 294-296
DefensiveMask(r) == IsIn(r.Sector, defensive_sectors) /\ NotNa(r.PERatio) /\ Below(r.PERatio, 20)

CyclicalMask(r) == IsIn(r.Sector, cyclical_sectors) /\ NotNa(r.MarketCap)

GrowthMask(r) == IsIn(r.Sector, growth_sectors) /\ NotNa(r.PERatio) /\ Above(r.PERatio, 25)

PEKey(r) == r.PERatio[1]

CapKey(r) == r.MarketCap[1]

\* sort_values(by=..., ascending=...): the default sort is not stable, so rows
\* with equal keys come out in any order.
SortValues(rows, Key(_), ascending) ==
    {[k \in 1..Len(rows) |-> rows[p[k]]] :
        p \in {q \in Orderings(1..Len(rows)) :
                 \A k \in 1..(Len(rows) - 1) :
                    IF ascending THEN Key(rows[q[k]]) <= Key(rows[q[k + 1]])
                                 ELSE Key(rows[q[k]]) >= Key(rows[q[k + 1]])}}

UnrecognisedGivesFiltered(f) == NoColumnsFrame

\* line 300: "return df"
Unrecognised(f) == f

\* The call filter_by_strategy(df, strategy_type).
FilterByStrategy ==
    /\ pc = "filter"
    /\ IF IsEmptyFrame(df)
       THEN /\ filtered_df' = NoColumnsFrame
            /\ warned' = FALSE
       ELSE CASE Lower(strategy_type) = "defensive" ->
                 /\ \E sorted \in SortValues(SelectSeq(df.rows, DefensiveMask), PEKey, TRUE) :
                       filtered_df' = [columns |-> df.columns, rows |-> sorted]
                 /\ warned' = FALSE
              [] Lower(strategy_type) = "cyclical" ->
                 /\ \E sorted \in SortValues(SelectSeq(df.rows, CyclicalMask), CapKey, FALSE) :
                       filtered_df' = [columns |-> df.columns, rows |-> sorted]
                 /\ warned' = FALSE
              [] Lower(strategy_type) = "growth" ->
                 /\ \E sorted \in SortValues(SelectSeq(df.rows, GrowthMask), PEKey, FALSE) :
                       filtered_df' = [columns |-> df.columns, rows |-> sorted]
                 /\ warned' = FALSE
              [] OTHER ->
                 /\ filtered_df' = Unrecognised(df)
                 /\ warned' = TRUE
    /\ pc' = "filter_done"
    /\ UNCHANGED <<df, strategy_type>>
    /\ UNCHANGED <<fetchVars, tickerVars, normVars, mainVars>>

InitFilter ==
    /\ pc = "filter"
    /\ df \in {[columns |-> FrameColumns, rows |-> rows] : rows \in SeqsUpTo(TableRows, MaxRows)}
    /\ strategy_type \in StrategyNames
    /\ filtered_df = <<>> /\ warned = FALSE
    /\ IdleFetch /\ IdleTicker /\ IdleNorm /\ IdleMain

NextFilter == FilterByStrategy

SpecFilter == InitFilter /\ [][NextFilter]_vars

FilterDone == pc = "filter_done"

Count(rows, r) == Cardinality({k \in 1..Len(rows) : rows[k] = r})

SameRows(a, b) == \A r \in TableRows : Count(a, r) = Count(b, r)

\* The strategies in the words of the specification.
IsDefensive(r) ==
    /\ r.Sector \in {Some("Healthcare"), Some("Utilities"), Some("Consumer Defensive"),
                     Some("Communication Services")}
    /\ r.PERatio # None /\ r.PERatio[1] < 20

IsCyclical(r) ==
    /\ r.Sector \in {Some("Industrials"), Some("Consumer Cyclical"), Some("Financial Services"),
                     Some("Real Estate"), Some("Basic Materials")}
    /\ r.MarketCap # None

IsGrowth(r) ==
    /\ r.Sector \in {Some("Technology"), Some("Communication Services"), Some("Healthcare"),
                     Some("Industrials")}
    /\ r.PERatio # None /\ r.PERatio[1] > 25

Monotonic(rows, Key(_), ascending) ==
    \A a, b \in 1..Len(rows) :
        a < b => IF ascending THEN Key(rows[a]) <= Key(rows[b]) ELSE Key(rows[a]) >= Key(rows[b])

KnownStrategy == Lower(strategy_type) \in {"defensive", "cyclical", "growth"}

\* C8: for each of the three strategies the result holds exactly the rows of
\* the table that satisfy the strategy's predicate, each as often as the table
\* holds it, ascending by PERatio for Defensive, descending by MarketCap for
\* Cyclical and descending by PERatio for Growth; a row whose Sector, PERatio or
\* MarketCap is missing where the strategy reads it is not in the result.
C8_StrategyFilter ==
    FilterDone =>
        /\ Lower(strategy_type) = "defensive" =>
              /\ SameRows(filtered_df.rows, SelectSeq(df.rows, IsDefensive))
              /\ Monotonic(filtered_df.rows, PEKey, TRUE)
        /\ Lower(strategy_type) = "cyclical" =>
              /\ SameRows(filtered_df.rows, SelectSeq(df.rows, IsCyclical))
              /\ Monotonic(filtered_df.rows, CapKey, FALSE)
        /\ Lower(strategy_type) = "growth" =>
              /\ SameRows(filtered_df.rows, SelectSeq(df.rows, IsGrowth))
              /\ Monotonic(filtered_df.rows, PEKey, FALSE)
        /\ KnownStrategy =>
              \A k \in 1..Len(filtered_df.rows) :
                 /\ filtered_df.rows[k].Sector # None
                 /\ Lower(strategy_type) = "cyclical" => filtered_df.rows[k].MarketCap # None
                 /\ Lower(strategy_type) # "cyclical" => filtered_df.rows[k].PERatio # None

\* C8 witness: a defensive filter kept two of three rows and put them in
\* ascending PERatio order, against the table's order.
C8_Witness ==
    /\ FilterDone /\ strategy_type = "Defensive"
    /\ df.rows = <<Row("A", Some("Healthcare"), Some(15), Some(5000)),
                   Row("E", Some("Utilities"), Some(20), Some(1000)),
                   Row("H", Some("Consumer Defensive"), Some(10), None)>>
    /\ filtered_df.rows = <<Row("H", Some("Consumer Defensive"), Some(10), None),
                            Row("A", Some("Healthcare"), Some(15), Some(5000))>>

\* C9 as stated: for every table, the empty one included, an unknown strategy
\* name gives the input table back unchanged, with a warning.
C9_Original ==
    (FilterDone /\ ~KnownStrategy) => (filtered_df = df /\ warned)

\* C9 (amended): for every table that is not empty an unknown strategy name
\* gives the input table back unchanged, with a warning; for the empty table
\* the result is an empty table without columns and no warning is given.
C9_UnknownStrategy ==
    (FilterDone /\ ~KnownStrategy) =>
        /\ ~IsEmptyFrame(df) => (filtered_df = df /\ warned)
        /\ IsEmptyFrame(df) => (filtered_df = NoColumnsFrame /\ ~warned)

\* C9 witness: a table of two rows came back as it was, with the warning.
C9_Witness ==
    /\ FilterDone /\ strategy_type = "unknown"
    /\ Len(df.rows) = 2 /\ filtered_df = df /\ warned

====
